---- MODULE Spec2Model ----
(***************************************************************************)
(* Yearly statistics of the time-tracking store                            *)
(* (frontend/src/stores/timetracking.ts, calculateYearlyStatistics).       *)
(*                                                                         *)
(* Numbers.  JavaScript numbers are modelled as exact decimals:            *)
(*   - hours are integers in hundredths of an hour (800 = 8 h),            *)
(*   - revenue of a project is in hundredths of a currency unit,           *)
(*   - a value the code rounds to 2 decimals is kept in hundredths,        *)
(*   - an unrounded quotient is kept as a fraction [num, den],             *)
(*   - Date.getTime() is kept in hours instead of milliseconds.            *)
(***************************************************************************)
EXTENDS Integers, Sequences, FiniteSets, TLC

\* ------------------------------------------------------------------ bounds
MaxEntries == 2
MaxStreakEntries == 4

\* ------------------------------------------------------- program constants
FallbackHourlyRate == 750
FallbackWorkDayHours == 750
HoursPerDay == 24
EpochYear == 1970
CoffeeHours == 400

monthNames == <<"Jan", "Feb", "Mar", "Apr", "May", "Jun",
                "Jul", "Aug", "Sep", "Oct", "Nov", "Dec">>

\* ------------------------------------------------------------ arithmetic
\* Math.round(a / b) for a >= 0, b > 0: halves round up.
RoundDiv(a, b) == (2 * a + b) \div (2 * b)

Max2(a, b) == IF a >= b THEN a ELSE b

\* The value of a missing numeric field once it enters arithmetic
\* (undefined + 1 is NaN).  Every other number of the model is >= 0, and a
\* comparison with NaN is false, as is -1 > x and -1 >= x for x >= 0.
NaN == -1

\* a + b
Plus(a, b) == IF a = NaN \/ b = NaN THEN NaN ELSE a + b

\* x || 0
OrZero(x) == IF x = NaN THEN 0 ELSE x

\* Math.round(a / b), NaN for a NaN dividend
RoundQuot(a, b) == IF a = NaN THEN NaN ELSE RoundDiv(a, b)

\* ------------------------------------------------------------------ dates
\* A date string "YYYY-MM-DD" is the record of its three fields.
D(y, m, d) == [y |-> y, m |-> m, d |-> d]

IsLeap(y) == (y % 4 = 0 /\ y % 100 # 0) \/ y % 400 = 0

DaysBeforeMonth(y, m) ==
    LET cum == <<0, 31, 59, 90, 120, 151, 181, 212, 243, 273, 304, 334>>
    IN  cum[m] + (IF m > 2 /\ IsLeap(y) THEN 1 ELSE 0)

LeapDaysBefore(y) == (y - 1) \div 4 - (y - 1) \div 100 + (y - 1) \div 400

\* Days from 1970-01-01 to the date.
DaysFromCivil(date) ==
    365 * (date.y - EpochYear)
      + (LeapDaysBefore(date.y) - LeapDaysBefore(EpochYear))
      + DaysBeforeMonth(date.y, date.m) + (date.d - 1)

CalendarYears == 2022 .. 2026

\* The calendar year that contains day number n.
YearOfDay(n) ==
    CHOOSE y \in CalendarYears :
        /\ DaysFromCivil(D(y, 1, 1)) <= n
        /\ n < DaysFromCivil(D(y + 1, 1, 1))

\* --------------------------------------------------------- input domains
P(name, hours, billable) ==
    [name |-> name, hoursAllocated |-> hours, billable |-> billable]

E(date, hours, projects) ==
    [date |-> date, totalHours |-> hours, projects |-> projects]

\* hours and allocations of one entry
Shapes ==
    { [totalHours |-> 800,  projects |-> << P("A", 800, "true") >>],
      [totalHours |-> 1000, projects |-> << P("A", 400, "false"), P("B", 400, "absent") >>],
      [totalHours |-> 750,  projects |-> << P("C", 400, "true"), P("B", 200, "false") >>],
      [totalHours |-> 33,   projects |-> << P("A", 33, "true") >>],
      [totalHours |-> 0,    projects |-> << >>] }

MixedDates == { D(2023, 12, 31), D(2024, 1, 1), D(2024, 3, 1) }

Entries == { E(d, s.totalHours, s.projects) : d \in MixedDates, s \in Shapes }

StreakDates == { D(2024, 1, 1), D(2024, 1, 2), D(2024, 1, 3), D(2024, 1, 4) }

DatedEntries == { E(d, 800, << P("A", 800, "true") >>) : d \in StreakDates }

\* entries as the backend accepts and stores them without totalHours (it is
\* optional in timeEntrySchema) or with 0 hours and allocations
\* (validateProjectHours passes when totalHours is falsy)
LenientDates == { D(2024, 3, 1), D(2024, 3, 2) }

LenientEntries ==
    { E(d, h, << P("A", 400, "true") >>) : d \in LenientDates, h \in { NaN, 0, 800 } }

\* a year of work: the first n working days of 2024, every day of 8 or 4
\* hours on one project, with or without a day of rest after every 6 days
LongYearLengths == { 30, 125, 200, 250 }

LongYearHours == { 400, 800 }

RestEvery == { 0, 6 }

DateOfDayInYear(y, n) ==
    LET m == CHOOSE m \in 1 .. 12 :
                 /\ DaysBeforeMonth(y, m) < n
                 /\ m < 12 => n <= DaysBeforeMonth(y, m + 1)
    IN  D(y, m, n - DaysBeforeMonth(y, m))

LongYear(n, hours, billable, rest) ==
    [k \in 1 .. n |->
        E(DateOfDayInYear(2024, IF rest = 0 THEN k ELSE k + (k - 1) \div rest),
          hours, << P("A", hours, billable) >>)]

LongYears ==
    { LongYear(n, hours, billable, rest) :
        n \in LongYearLengths, hours \in LongYearHours,
        billable \in { "true", "false" }, rest \in RestEvery }

BoundedSeq(S, n) == UNION { [1 .. k -> S] : k \in 0 .. n }

Years == { 2023, 2024 }

\* UTC offsets of the machine, in hours
TimeZones == { -5, 1 }

\* 0 stands for an unset variable: Number(undefined) is NaN, which is falsy
EnvHourlyRates == { 0, 100 }
EnvWorkDayHours == { 0, 800 }

\* 0 stands for an omitted argument
HourlyRateArgs == { 0, 100 }

StoreModules == { "timetracking.ts", "part_010" }

\* ------------------------------------------------------------------ state
VARIABLES
    timeEntries,        \* timeEntries.value of the store
    timeZone,           \* UTC offset of the machine's local time, hours
    VITE_DEFAULT_HOURLY_RATE,
    VITE_DEFAULT_WORK_DAY_HOURS,
    storeModule,        \* which of the two store sources is built
    call,               \* inputs of the last calculateYearlyStatistics, and
                        \* whether the call before it had the same inputs
    returned,           \* outcome of the last calculateYearlyStatistics
    storeProjects,      \* projects.value of the store
    isOnline,           \* isOnline.value of the store
    localStorage,       \* the browser's localStorage: the cached entries and
                        \* the offline queue
    sync,               \* the runs of syncOfflineQueue that have not finished
    data,               \* the backend's stored data
    serverModule,       \* which of the two server sources runs
    uuids,              \* number of ids generated so far
    REQUIRE_PASSWORD,   \* process.env.REQUIRE_PASSWORD of the backend
    requests,           \* the requests the backend has received: how far
                        \* each has got, and what it read and answered
    now,                \* Date.now() of the browser
    queued              \* what became of each action ever put in the offline
                        \* queue, by timestamp: the id of the offline entry
                        \* it stands for and how often a sync run has sent it

vars == << timeEntries, timeZone, VITE_DEFAULT_HOURLY_RATE,
           VITE_DEFAULT_WORK_DAY_HOURS, storeModule, call, returned,
           storeProjects, isOnline, localStorage, sync, data, serverModule,
           uuids, REQUIRE_PASSWORD, requests, now, queued >>

NoCall == [made |-> FALSE]
NotReturned == [status |-> "none"]

\* the rest of the system while only statistics are computed: the store has
\* fetched the entries from the backend and cached them, nothing is queued
\* and no sync runs
AtRest ==
    /\ storeProjects = << >>
    /\ isOnline = TRUE
    /\ localStorage = [timetracking_entries |-> timeEntries,
                       timetracking_projects |-> << >>,
                       timetracking_offline_queue |-> << >>]
    /\ sync = << >>
    /\ data = [timeEntries |-> timeEntries, projects |-> << >>]
    /\ serverModule = "server.ts"
    /\ uuids = 0
    /\ REQUIRE_PASSWORD = "false"
    /\ requests = << >>
    /\ now = 0
    /\ queued = << >>

\* The store holds either a few entries of every shape, under every
\* configuration, or more entries that differ in their date only.
Init ==
    /\ \/ /\ timeEntries \in BoundedSeq(Entries, MaxEntries)
          /\ VITE_DEFAULT_HOURLY_RATE \in EnvHourlyRates
          /\ VITE_DEFAULT_WORK_DAY_HOURS \in EnvWorkDayHours
       \/ /\ timeEntries \in BoundedSeq(DatedEntries, MaxStreakEntries)
          /\ VITE_DEFAULT_HOURLY_RATE = 0
          /\ VITE_DEFAULT_WORK_DAY_HOURS = 0
    /\ timeZone \in TimeZones
    /\ storeModule \in StoreModules
    /\ call = NoCall
    /\ returned = NotReturned
    /\ AtRest

InitLenient ==
    /\ timeEntries \in BoundedSeq(LenientEntries, MaxEntries)
    /\ VITE_DEFAULT_HOURLY_RATE = 0
    /\ VITE_DEFAULT_WORK_DAY_HOURS = 0
    /\ timeZone \in TimeZones
    /\ storeModule \in StoreModules
    /\ call = NoCall
    /\ returned = NotReturned
    /\ AtRest

InitLongYear ==
    /\ timeEntries \in LongYears
    /\ VITE_DEFAULT_HOURLY_RATE = 0
    /\ VITE_DEFAULT_WORK_DAY_HOURS = 0
    /\ timeZone \in TimeZones
    /\ storeModule \in StoreModules
    /\ call = NoCall
    /\ returned = NotReturned
    /\ AtRest

\* ------------------------------------------------- the Date object in use
\* new Date("YYYY-MM-DD").getTime(): the instant of UTC midnight, in hours.
getTime(date) == DaysFromCivil(date) * HoursPerDay

\* Date.prototype.getFullYear(): the year of the instant in local time.
getFullYear(date) == YearOfDay((getTime(date) + timeZone) \div HoursPerDay)

\* ----------------------------------------------- calculateYearlyStatistics
\* timeEntries.value.filter(entry => new Date(entry.date).getFullYear() === year)
yearEntries(year) ==
    SelectSeq(timeEntries, LAMBDA entry : getFullYear(entry.date) = year)

\* hourlyRate || Number(import.meta.env.VITE_DEFAULT_HOURLY_RATE) || 750
\* (timetracking.ts has no hourlyRate parameter)
DEFAULT_HOURLY_RATE(hourlyRate) ==
    IF storeModule = "part_010" /\ hourlyRate # 0 THEN hourlyRate
    ELSE IF VITE_DEFAULT_HOURLY_RATE # 0 THEN VITE_DEFAULT_HOURLY_RATE
    ELSE FallbackHourlyRate

\* Number(import.meta.env.VITE_DEFAULT_WORK_DAY_HOURS) || 7.5
defaultWorkDayHours ==
    IF VITE_DEFAULT_WORK_DAY_HOURS # 0 THEN VITE_DEFAULT_WORK_DAY_HOURS
    ELSE FallbackWorkDayHours

\* mutation: only an allocation flagged true is billable
isBillableOnlyWhenTrue(project) == project.billable = "true"

\* const isBillable = project.billable !== false
isBillable(project) == project.billable # "false"

\* mutation: the accumulator outlives the call
InitialTotalHoursKept ==
    IF returned.status = "report" THEN returned.stats.totalHours ELSE 0

\* let totalHours = 0
InitialTotalHours == 0

\* index of the record named name in the Map's insertion order, 0 if none
IndexOfName(stats, name) ==
    IF \E i \in 1 .. Len(stats) : stats[i].name = name
    THEN CHOOSE i \in 1 .. Len(stats) : stats[i].name = name
    ELSE 0

\* mutation: the hours of a project are counted inside the billable branch
AddProjectHoursWhenBillable(acc, project, rate) ==
    LET i == IndexOfName(acc.projectStats, project.name)
        existing == IF i # 0 THEN acc.projectStats[i]
                    ELSE [name |-> project.name, totalHours |-> 0, revenue |-> 0,
                          billableHours |-> 0, nonBillableHours |-> 0]
        updated ==
            IF isBillable(project)
            THEN [existing EXCEPT !.totalHours = @ + project.hoursAllocated,
                                  !.billableHours = @ + project.hoursAllocated,
                                  !.revenue = @ + project.hoursAllocated * rate]
            ELSE [existing EXCEPT !.nonBillableHours = @ + project.hoursAllocated]
        stats == IF i # 0 THEN [acc.projectStats EXCEPT ![i] = updated]
                 ELSE Append(acc.projectStats, updated)
    IN  IF isBillable(project)
        THEN [acc EXCEPT !.projectStats = stats,
                         !.billableHours = @ + project.hoursAllocated]
        ELSE [acc EXCEPT !.projectStats = stats,
                         !.nonBillableHours = @ + project.hoursAllocated]

\* body of entry.projects.forEach(project => ...) on the accumulators
AddProject(acc, project, rate) ==
    LET i == IndexOfName(acc.projectStats, project.name)
        existing == IF i # 0 THEN acc.projectStats[i]
                    ELSE [name |-> project.name, totalHours |-> 0, revenue |-> 0,
                          billableHours |-> 0, nonBillableHours |-> 0]
        withHours == [existing EXCEPT !.totalHours = @ + project.hoursAllocated]
        updated ==
            IF isBillable(project)
            THEN [withHours EXCEPT !.billableHours = @ + project.hoursAllocated,
                                   !.revenue = @ + project.hoursAllocated * rate]
            ELSE [withHours EXCEPT !.nonBillableHours = @ + project.hoursAllocated]
        stats == IF i # 0 THEN [acc.projectStats EXCEPT ![i] = updated]
                 ELSE Append(acc.projectStats, updated)
    IN  IF isBillable(project)
        THEN [acc EXCEPT !.projectStats = stats,
                         !.billableHours = @ + project.hoursAllocated]
        ELSE [acc EXCEPT !.projectStats = stats,
                         !.nonBillableHours = @ + project.hoursAllocated]

RECURSIVE AddProjects(_, _, _)
AddProjects(acc, projects, rate) ==
    IF projects = << >> THEN acc
    ELSE AddProjects(AddProject(acc, Head(projects), rate), Tail(projects), rate)

\* mutation: a day of exactly the work-day hours counts as an overtime day
AddEntryCountingFullDays(acc, entry, rate) ==
    LET entryOvertimeHours ==
            Max2(0, OrZero(entry.totalHours) - defaultWorkDayHours)
        counted == [acc EXCEPT !.totalHours = Plus(@, entry.totalHours)]
        withOvertime ==
            IF OrZero(entry.totalHours) - defaultWorkDayHours >= 0
            THEN [counted EXCEPT !.totalOvertimeHours = @ + entryOvertimeHours,
                                 !.overtimeDays = @ + 1]
            ELSE counted
    IN  AddProjects(withOvertime, entry.projects, rate)

\* body of the first yearEntries.forEach(entry => ...)
AddEntry(acc, entry, rate) ==
    LET entryOvertimeHours ==
            Max2(0, OrZero(entry.totalHours) - defaultWorkDayHours)
        counted == [acc EXCEPT !.totalHours = Plus(@, entry.totalHours)]
        withOvertime ==
            IF entryOvertimeHours > 0
            THEN [counted EXCEPT !.totalOvertimeHours = @ + entryOvertimeHours,
                                 !.overtimeDays = @ + 1]
            ELSE counted
    IN  AddProjects(withOvertime, entry.projects, rate)

\* The loops over the entries of a year are folds from the first entry to
\* the last.  A fold over entries[lo .. hi] is written as the fold over the
\* second half started from the result of the fold over the first half; the
\* test left = left has the first half evaluated before the second is
\* entered, which keeps the evaluation of a 250-entry year shallow.
RECURSIVE AddEntriesBetween(_, _, _, _, _)
AddEntriesBetween(acc, entries, lo, hi, rate) ==
    IF lo > hi THEN acc
    ELSE IF lo = hi THEN AddEntry(acc, entries[lo], rate)
    ELSE LET mid == (lo + hi) \div 2
             left == AddEntriesBetween(acc, entries, lo, mid, rate)
         IN  IF left = left
             THEN AddEntriesBetween(left, entries, mid + 1, hi, rate)
             ELSE left

AddEntries(acc, entries, rate) ==
    AddEntriesBetween(acc, entries, 1, Len(entries), rate)

\* the accumulators as declared before the loop
InitialAccumulators ==
    [projectStats |-> << >>, totalHours |-> InitialTotalHours,
     billableHours |-> 0, nonBillableHours |-> 0,
     totalOvertimeHours |-> 0, overtimeDays |-> 0]

Accumulate(entries, rate) == AddEntries(InitialAccumulators, entries, rate)

\* project.percentage = (project.totalHours / totalHours) * 100, unrounded:
\* Infinity or NaN for den = 0, NaN for den = NaN
WithPercentage(project, totalHours) ==
    [name |-> project.name, totalHours |-> project.totalHours,
     revenue |-> project.revenue,
     percentage |-> [num |-> project.totalHours * 100, den |-> totalHours],
     billableHours |-> project.billableHours,
     nonBillableHours |-> project.nonBillableHours]

\* mutation: no secondary sort key
compareProjectsByRevenueOnly(a, b) == b.revenue - a.revenue

\* the comparator of topProjects: negative when a sorts before b
compareProjects(a, b) ==
    LET revenueDiff == b.revenue - a.revenue
    IN  IF revenueDiff # 0 THEN revenueDiff ELSE b.totalHours - a.totalHours

\* Array.prototype.sort is stable: x goes behind every element it does not
\* sort strictly before.
RECURSIVE InsertProject(_, _)
InsertProject(sorted, x) ==
    IF sorted = << >> THEN << x >>
    ELSE IF compareProjects(x, Head(sorted)) < 0 THEN << x >> \o sorted
    ELSE << Head(sorted) >> \o InsertProject(Tail(sorted), x)

RECURSIVE SortProjects(_, _)
SortProjects(done, todo) ==
    IF todo = << >> THEN done
    ELSE SortProjects(InsertProject(done, Head(todo)), Tail(todo))

topProjectsOf(acc) ==
    SortProjects(<< >>,
        [i \in 1 .. Len(acc.projectStats) |->
            WithPercentage(acc.projectStats[i], acc.totalHours)])

\* ---------------------------------------------------- monthly breakdown
\* monthNames.forEach((month, index) => monthlyStats.set(`${year}-MM`, ...)):
\* the Map in insertion order, each element with its key
InitialMonthlyStats(year) ==
    [index \in 1 .. 12 |->
        [key |-> [y |-> year, m |-> index], month |-> monthNames[index],
         totalHours |-> 0, projectHours |-> << >>]]

IndexOfKey(stats, key) ==
    IF \E i \in 1 .. Len(stats) : stats[i].key = key
    THEN CHOOSE i \in 1 .. Len(stats) : stats[i].key = key
    ELSE 0

\* projectHours[name] = (projectHours[name] || 0) + hoursAllocated
RECURSIVE AddProjectHours(_, _)
AddProjectHours(projectHours, projects) ==
    IF projects = << >> THEN projectHours
    ELSE LET project == Head(projects)
             old == IF project.name \in DOMAIN projectHours
                    THEN projectHours[project.name] ELSE 0
             new == [n \in DOMAIN projectHours \cup {project.name} |->
                        IF n = project.name THEN old + project.hoursAllocated
                        ELSE projectHours[n]]
         IN  AddProjectHours(new, Tail(projects))

\* body of the second yearEntries.forEach(entry => ...)
AddToMonth(stats, entry) ==
    LET monthKey == [y |-> entry.date.y, m |-> entry.date.m]
        i == IndexOfKey(stats, monthKey)
        monthData == IF i # 0 THEN stats[i]
                     ELSE [key |-> monthKey, month |-> monthNames[entry.date.m],
                           totalHours |-> 0, projectHours |-> << >>]
        updated == [monthData EXCEPT
                       !.totalHours = Plus(@, entry.totalHours),
                       !.projectHours = AddProjectHours(@, entry.projects)]
    IN  IF i # 0 THEN [stats EXCEPT ![i] = updated] ELSE Append(stats, updated)

RECURSIVE AddToMonthsBetween(_, _, _, _)
AddToMonthsBetween(stats, entries, lo, hi) ==
    IF lo > hi THEN stats
    ELSE IF lo = hi THEN AddToMonth(stats, entries[lo])
    ELSE LET mid == (lo + hi) \div 2
             left == AddToMonthsBetween(stats, entries, lo, mid)
         IN  IF left = left
             THEN AddToMonthsBetween(left, entries, mid + 1, hi)
             ELSE left

AddToMonths(stats, entries) ==
    AddToMonthsBetween(stats, entries, 1, Len(entries))

\* mutation: only the twelve months of the requested year are returned
monthlyBreakdownOfTwelve(entries, year) ==
    LET stats == AddToMonths(InitialMonthlyStats(year), entries)
    IN  [i \in 1 .. 12 |->
            [month |-> stats[i].month, totalHours |-> stats[i].totalHours,
             projectHours |-> stats[i].projectHours]]

\* Array.from(monthlyStats.values())
monthlyBreakdownOf(entries, year) ==
    LET stats == AddToMonths(InitialMonthlyStats(year), entries)
    IN  [i \in 1 .. Len(stats) |->
            [month |-> stats[i].month, totalHours |-> stats[i].totalHours,
             projectHours |-> stats[i].projectHours]]

NoMonth == [month |-> "N/A", totalHours |-> 0]

RECURSIVE ReduceBusiest(_, _)
ReduceBusiest(max, months) ==
    IF months = << >> THEN max
    ELSE ReduceBusiest(IF Head(months).totalHours > max.totalHours
                       THEN Head(months) ELSE max, Tail(months))

RECURSIVE ReduceLeastBusy(_, _)
ReduceLeastBusy(min, months) ==
    IF months = << >> THEN min
    ELSE ReduceLeastBusy(IF Head(months).totalHours < min.totalHours
                         THEN Head(months) ELSE min, Tail(months))

monthsWithHoursOf(monthlyBreakdown) ==
    SelectSeq(monthlyBreakdown, LAMBDA month : month.totalHours > 0)

busiestMonthOf(monthsWithHours) ==
    ReduceBusiest(IF monthsWithHours # << >> THEN monthsWithHours[1] ELSE NoMonth,
                  monthsWithHours)

leastBusyMonthOf(monthsWithHours) ==
    ReduceLeastBusy(IF monthsWithHours # << >> THEN monthsWithHours[1] ELSE NoMonth,
                    monthsWithHours)

\* { month, hours, percentage } of the returned object
MonthSummary(month, totalHours) ==
    [month |-> month.month, hours |-> month.totalHours,
     percentage |-> IF totalHours > 0
                    THEN RoundDiv(month.totalHours * 10000, totalHours) ELSE 0]

\* ------------------------------------------------ working days and streaks
\* (a, b) => new Date(a.date).getTime() - new Date(b.date).getTime()
compareEntries(a, b) == getTime(a.date) - getTime(b.date)

\* x goes before the first element that it compares strictly less than
InsertEntry(sorted, x) ==
    LET before == { i \in 1 .. Len(sorted) : compareEntries(x, sorted[i]) < 0 }
    IN  IF before = {} THEN Append(sorted, x)
        ELSE LET k == CHOOSE i \in before : \A j \in before : i <= j
             IN  SubSeq(sorted, 1, k - 1) \o << x >> \o SubSeq(sorted, k, Len(sorted))

RECURSIVE SortEntriesBetween(_, _, _, _)
SortEntriesBetween(done, todo, lo, hi) ==
    IF lo > hi THEN done
    ELSE IF lo = hi THEN InsertEntry(done, todo[lo])
    ELSE LET mid == (lo + hi) \div 2
             left == SortEntriesBetween(done, todo, lo, mid)
         IN  IF left = left
             THEN SortEntriesBetween(left, todo, mid + 1, hi)
             ELSE left

SortEntries(done, todo) == SortEntriesBetween(done, todo, 1, Len(todo))

\* const workingDays = yearEntries.length
workingDaysOf(entries) == Len(entries)

\* body of sortedEntries.forEach(entry => ...)
StreakStep(st, entry) ==
    LET currentDate == getTime(entry.date)
    IN  IF st.hasLast
        THEN LET daysDiff == RoundDiv(currentDate - st.lastDate, HoursPerDay)
             IN  IF daysDiff = 1
                 THEN [st EXCEPT !.currentStreak = @ + 1, !.lastDate = currentDate]
                 ELSE [st EXCEPT !.longestStreak = Max2(@, st.currentStreak),
                                 !.currentStreak = 1, !.lastDate = currentDate]
        ELSE [st EXCEPT !.currentStreak = 1, !.hasLast = TRUE,
                        !.lastDate = currentDate]

RECURSIVE StreakWalkBetween(_, _, _, _)
StreakWalkBetween(st, entries, lo, hi) ==
    IF lo > hi THEN st
    ELSE IF lo = hi THEN StreakStep(st, entries[lo])
    ELSE LET mid == (lo + hi) \div 2
             left == StreakWalkBetween(st, entries, lo, mid)
         IN  IF left = left
             THEN StreakWalkBetween(left, entries, mid + 1, hi)
             ELSE left

StreakWalk(st, entries) == StreakWalkBetween(st, entries, 1, Len(entries))

longestStreakOf(entries) ==
    LET st == StreakWalk([longestStreak |-> 0, currentStreak |-> 0,
                          hasLast |-> FALSE, lastDate |-> 0],
                         SortEntries(<< >>, entries))
    IN  Max2(st.longestStreak, st.currentStreak)

\* --------------------------------------------------------------- milestones
\* billableHours / totalHours > tenths / 10 (x / 0 is Infinity, 0 / 0 is NaN)
BillableRatioAbove(billableHours, totalHours, tenths) ==
    IF totalHours = NaN THEN FALSE
    ELSE IF totalHours > 0 THEN 10 * billableHours > tenths * totalHours
    ELSE billableHours > 0

Conditional(cond, label) == IF cond THEN << label >> ELSE << >>

\* the labels in the order of the if statements
milestoneLabels ==
    << "1000+ Hours Logged", "1500+ Hours Achieved", "2000+ Hours Mastery",
       "80%+ Billable Hours", "30+ Day Work Streak", "200+ Working Days" >>

\* a checklist that tests the 2000-hour milestone before the 1000-hour one
\* and pushes the 200-day label for the streak as well
milestonesOutOfOrder(totalHours, billableHours, longestStreak, workingDays) ==
    Conditional(totalHours >= 200000, milestoneLabels[3])
    \o Conditional(totalHours >= 100000, milestoneLabels[1])
    \o Conditional(totalHours >= 150000, milestoneLabels[2])
    \o Conditional(BillableRatioAbove(billableHours, totalHours, 8),
                   milestoneLabels[4])
    \o Conditional(longestStreak >= 30, milestoneLabels[6])
    \o Conditional(workingDays >= 200, milestoneLabels[6])

\* the milestone checklist of timetracking.ts
milestonesOf(totalHours, billableHours, longestStreak, workingDays) ==
    Conditional(totalHours >= 100000, "1000+ Hours Logged")
    \o Conditional(totalHours >= 150000, "1500+ Hours Achieved")
    \o Conditional(totalHours >= 200000, "2000+ Hours Mastery")
    \o Conditional(BillableRatioAbove(billableHours, totalHours, 8),
                   "80%+ Billable Hours")
    \o Conditional(longestStreak >= 30, "30+ Day Work Streak")
    \o Conditional(workingDays >= 200, "200+ Working Days")

\* ------------------------------------------------------ the returned object
\* Hours are in hundredths; totalRevenue is Math.round(billableHours * rate),
\* in whole currency units; the revenue of a project is in hundredths.
Report(year, hourlyRate) ==
    LET entries == yearEntries(year)
        rate == DEFAULT_HOURLY_RATE(hourlyRate)
        acc == Accumulate(entries, rate)
        totalHours == acc.totalHours
        monthlyBreakdown == monthlyBreakdownOf(entries, year)
        monthsWithHours == monthsWithHoursOf(monthlyBreakdown)
        workingDays == workingDaysOf(entries)
        longestStreak == longestStreakOf(entries)
    IN  [year |-> year,
         totalHours |-> totalHours,
         billableHours |-> acc.billableHours,
         nonBillableHours |-> acc.nonBillableHours,
         totalRevenue |-> RoundDiv(acc.billableHours * rate, 100),
         averageHourlyRate |-> rate,
         topProjects |-> topProjectsOf(acc),
         monthlyBreakdown |-> monthlyBreakdown,
         busiestMonth |-> MonthSummary(busiestMonthOf(monthsWithHours), totalHours),
         leastBusyMonth |-> MonthSummary(leastBusyMonthOf(monthsWithHours), totalHours),
         averageDailyHours |-> IF workingDays > 0
                               THEN RoundQuot(totalHours, workingDays) ELSE 0,
         workingDays |-> workingDays,
         longestStreak |-> longestStreak,
         milestones |-> milestonesOf(totalHours, acc.billableHours,
                                     longestStreak, workingDays),
         coffeeEquivalent |-> RoundQuot(totalHours, CoffeeHours),
         totalOvertimeHours |-> acc.totalOvertimeHours,
         overtimeDays |-> acc.overtimeDays,
         averageOvertimeHours |-> IF acc.overtimeDays > 0
                                  THEN RoundDiv(acc.totalOvertimeHours, acc.overtimeDays)
                                  ELSE 0,
         overtimePercentage |-> IF totalHours > 0
                                THEN RoundDiv(acc.totalOvertimeHours * 10000, totalHours)
                                ELSE 0]

\* part_010 reads the const averageDailyHours in its first milestone block
\* (line 610), before the declaration (line 700) has run: a ReferenceError.
ReadsBeforeInitialization == storeModule = "part_010"

Outcome(year, hourlyRate) ==
    IF yearEntries(year) = << >> THEN [status |-> "null"]
    ELSE IF ReadsBeforeInitialization THEN [status |-> "ReferenceError"]
    ELSE [status |-> "report", stats |-> Report(year, hourlyRate)]

\* ----------------------------------------------------------------- actions
\* what a call leaves in timeEntries.value had line 567 sorted the store's
\* array itself
timeEntriesSortedInPlace(entries) == SortEntries(<< >>, entries)

\* what a call leaves in timeEntries.value: filter (line 442) returns a new
\* array and line 567 sorts a copy of it
timeEntriesAfterStatistics(entries) == entries

calculateYearlyStatistics(year, hourlyRate) ==
    /\ storeModule = "timetracking.ts" => hourlyRate = 0
    /\ call' = [made |-> TRUE, year |-> year, hourlyRate |-> hourlyRate,
                entries |-> timeEntries,
                repeated |-> /\ call.made
                             /\ call.year = year
                             /\ call.hourlyRate = hourlyRate
                             /\ call.entries = timeEntries]
    /\ returned' = Outcome(year, hourlyRate)
    /\ timeEntries' = timeEntriesAfterStatistics(timeEntries)
    /\ UNCHANGED << REQUIRE_PASSWORD, requests, now, queued >>
    /\ UNCHANGED << timeZone, VITE_DEFAULT_HOURLY_RATE,
                    VITE_DEFAULT_WORK_DAY_HOURS, storeModule, storeProjects,
                    isOnline, localStorage, sync, data, serverModule, uuids >>

Next ==
    \E year \in Years, hourlyRate \in HourlyRateArgs :
        calculateYearlyStatistics(year, hourlyRate)

Spec == Init /\ [][Next]_vars

SpecLenient == InitLenient /\ [][Next]_vars

SpecLongYear == InitLongYear /\ [][Next]_vars

\* ------------------------------------------------------------- the backend
\* Request bodies carry date, totalHours and projects; the time fields, which
\* no stored total is computed from, are left out.  A missing totalHours is
\* written NaN, which is what reading it gives once it enters arithmetic.
ServerModules == { "server.ts", "part_002" }

MaxStored == 2

MaxScheduleHours == 2400

ProjectLists ==
    { << >>,
      << P("A", 400, "absent") >>,
      << P("A", 400, "absent"), P("B", 800, "absent") >> }

PostBodies ==
    { E(D(2024, 3, 1), h, ps) : h \in { NaN, 0, 400, 800 }, ps \in ProjectLists }

\* Partial<TimeEntry>: any subset of the fields
PutBodies ==
    { [totalHours |-> h] : h \in { 0, 400 } }
    \cup { [projects |-> ps] : ps \in ProjectLists }
    \cup { [totalHours |-> h, projects |-> ps] :
              h \in { 0, 400 }, ps \in ProjectLists }

WithId(entry, id) ==
    [id |-> id, date |-> entry.date, totalHours |-> entry.totalHours,
     projects |-> entry.projects]

\* projects.reduce((sum, project) => sum + (project.hoursAllocated || 0), 0)
RECURSIVE sumProjectHours(_)
sumProjectHours(ps) ==
    IF ps = << >> THEN 0
    ELSE Head(ps).hoursAllocated + sumProjectHours(Tail(ps))

\* if (!projects || !totalHours) return true; return sumProjectHours <= totalHours
validateProjectHours(ps, totalHours) ==
    IF totalHours = NaN \/ totalHours = 0 THEN TRUE
    ELSE sumProjectHours(ps) <= totalHours

\* timeEntrySchema and projectSchema: the ranges of the numbers
WithinSchema(totalHours, ps) ==
    /\ totalHours = NaN \/ (0 <= totalHours /\ totalHours <= MaxScheduleHours)
    /\ \A i \in DOMAIN ps :
           0 <= ps[i].hoursAllocated /\ ps[i].hoursAllocated <= MaxScheduleHours

\* validateTimeEntry: next() is reached
validateTimeEntry(body) ==
    /\ WithinSchema(body.totalHours, body.projects)
    /\ validateProjectHours(body.projects, body.totalHours)

\* stripUnknown: true removes the keys that projectSchema does not list
StripUnknown(body) ==
    [body EXCEPT !.projects =
        [i \in DOMAIN @ |-> P(@[i].name, @[i].hoursAllocated, "absent")]]

\* validateTimeEntryUpdate: next() is reached.  allowUnknown: false rejects a
\* project that carries a key projectSchema does not list; the sum is tested
\* only when the body holds both projects and totalHours.
validateTimeEntryUpdate(body) ==
    LET totalHours == IF "totalHours" \in DOMAIN body THEN body.totalHours ELSE NaN
        ps == IF "projects" \in DOMAIN body THEN body.projects ELSE << >>
    IN  /\ WithinSchema(totalHours, ps)
        /\ \A i \in DOMAIN ps : ps[i].billable = "absent"
        /\ ( "projects" \in DOMAIN body /\ "totalHours" \in DOMAIN body )
               => validateProjectHours(ps, totalHours)

\* data.timeEntries.findIndex(entry => entry.id === id), 0 for -1
findIndex(entries, id) ==
    IF \E i \in DOMAIN entries : entries[i].id = id
    THEN CHOOSE i \in DOMAIN entries :
             /\ entries[i].id = id
             /\ \A j \in DOMAIN entries : entries[j].id = id => i <= j
    ELSE 0

\* { ...entry, ...updates }
Merge(entry, updates) ==
    [f \in DOMAIN entry \cup DOMAIN updates |->
        IF f \in DOMAIN updates THEN updates[f] ELSE entry[f]]

\* app.post('/api/timeentries', validateTimeEntry, ...) with createTimeEntry
\* of the storage: the response and the data it leaves
postTimeEntry(d, body, id) ==
    IF ~ validateTimeEntry(body) THEN [status |-> 400, data |-> d]
    ELSE LET newEntry == WithId(StripUnknown(body), id)
         IN  [status |-> 200, entry |-> newEntry,
              data |-> [d EXCEPT !.timeEntries = Append(@, newEntry)]]

\* app.put('/api/timeentries/:id', ...) with updateTimeEntry of the storage;
\* only part_002 puts validateTimeEntryUpdate before the handler
putTimeEntry(d, id, body) ==
    LET entryIndex == findIndex(d.timeEntries, id)
    IN  IF serverModule = "part_002" /\ ~ validateTimeEntryUpdate(body)
        THEN [status |-> 400, data |-> d]
        ELSE IF entryIndex = 0 THEN [status |-> 404, data |-> d]
        ELSE LET updated == Merge(d.timeEntries[entryIndex], body)
             IN  [status |-> 200, entry |-> updated,
                  data |-> [d EXCEPT !.timeEntries[entryIndex] = updated]]

\* app.delete('/api/timeentries/:id', ...) with deleteTimeEntry of the
\* storage: splice(entryIndex, 1)
deleteStoredTimeEntry(d, id) ==
    LET entryIndex == findIndex(d.timeEntries, id)
    IN  IF entryIndex = 0 THEN [status |-> 404, data |-> d]
        ELSE [status |-> 200,
              data |-> [d EXCEPT !.timeEntries =
                           [i \in 1 .. Len(@) - 1 |->
                               IF i < entryIndex THEN @[i] ELSE @[i + 1]]]]

InitBackend ==
    /\ timeEntries = << >>
    /\ VITE_DEFAULT_HOURLY_RATE = 0
    /\ VITE_DEFAULT_WORK_DAY_HOURS = 0
    /\ timeZone = 1
    /\ storeModule = "timetracking.ts"
    /\ call = NoCall
    /\ returned = NotReturned
    /\ storeProjects = << >>
    /\ isOnline = TRUE
    /\ localStorage = [timetracking_entries |-> << >>,
                       timetracking_projects |-> << >>,
                       timetracking_offline_queue |-> << >>]
    /\ sync = << >>
    /\ data = [timeEntries |-> << >>, projects |-> << >>]
    /\ serverModule \in ServerModules
    /\ uuids = 0
    /\ REQUIRE_PASSWORD = "false"
    /\ requests = << >>
    /\ now = 0
    /\ queued = << >>

\* a client's POST /api/timeentries
POST(body) ==
    /\ Len(data.timeEntries) < MaxStored
    /\ LET response == postTimeEntry(data, body, uuids + 1)
       IN  /\ data' = response.data
           /\ uuids' = IF response.status = 200 THEN uuids + 1 ELSE uuids
    /\ UNCHANGED << REQUIRE_PASSWORD, requests, now, queued >>
    /\ UNCHANGED << timeEntries, timeZone, VITE_DEFAULT_HOURLY_RATE,
                    VITE_DEFAULT_WORK_DAY_HOURS, storeModule, call, returned,
                    storeProjects, isOnline, localStorage, sync, serverModule >>

\* a client's PUT /api/timeentries/:id
PUT(id, body) ==
    /\ data' = putTimeEntry(data, id, body).data
    /\ UNCHANGED << REQUIRE_PASSWORD, requests, now, queued >>
    /\ UNCHANGED << timeEntries, timeZone, VITE_DEFAULT_HOURLY_RATE,
                    VITE_DEFAULT_WORK_DAY_HOURS, storeModule, call, returned,
                    storeProjects, isOnline, localStorage, sync, serverModule,
                    uuids >>

NextBackend ==
    \/ \E body \in PostBodies : POST(body)
    \/ \E id \in 1 .. MaxStored + 1, body \in PutBodies : PUT(id, body)

SpecBackend == InitBackend /\ [][NextBackend]_vars

\* ------------------------------------------- the backend's authentication
\* A path is the sequence of its characters, so that startsWith and the
\* router's matching are computed on the text.
\* "/api/timeentries"
timeentriesRoute ==
    << "/", "a", "p", "i", "/", "t", "i", "m", "e", "e", "n", "t", "r",
       "i", "e", "s" >>

\* "/api/projects"
projectsRoute ==
    << "/", "a", "p", "i", "/", "p", "r", "o", "j", "e", "c", "t", "s" >>

\* "/api/health"
healthRoute ==
    << "/", "a", "p", "i", "/", "h", "e", "a", "l", "t", "h" >>

\* "/api/auth/login"
loginRoute ==
    << "/", "a", "p", "i", "/", "a", "u", "t", "h", "/", "l", "o", "g",
       "i", "n" >>

\* "/api/auth/verify"
verifyRoute ==
    << "/", "a", "p", "i", "/", "a", "u", "t", "h", "/", "v", "e", "r",
       "i", "f", "y" >>

protectedRoutes == << timeentriesRoute, projectsRoute, healthRoute >>

\* String.prototype.toLowerCase on the letters that the paths use
toLowerCase(c) ==
    CASE c = "A" -> "a" [] c = "P" -> "p" [] c = "I" -> "i" [] c = "T" -> "t"
      [] c = "E" -> "e" [] c = "H" -> "h" [] OTHER -> c

LowerCased(path) == [i \in DOMAIN path |-> toLowerCase(path[i])]

\* String.prototype.startsWith
startsWith(text, prefix) ==
    /\ Len(prefix) <= Len(text)
    /\ SubSeq(text, 1, Len(prefix)) = prefix

\* the paths that requests ask for
RequestPaths ==
    { timeentriesRoute,
      timeentriesRoute \o << "/", "1" >>,
      timeentriesRoute \o << "/" >>,
      projectsRoute,
      projectsRoute \o << "/", "A" >>,
      healthRoute,
      healthRoute \o << "z" >>,
      verifyRoute,
      << "/" >>,
      << "/", "A", "P", "I", "/" >> \o SubSeq(timeentriesRoute, 6, 16),
      << "/", "a", "p", "i", "/", "T" >> \o SubSeq(timeentriesRoute, 7, 16)
          \o << "/", "1" >>,
      << "/", "A", "p", "i", "/" >> \o SubSeq(projectsRoute, 6, 13),
      << "/", "a", "p", "i", "/", "H" >> \o SubSeq(healthRoute, 7, 11) }

\* What jwt.verify makes of a token: whether its signature was made with
\* JWT_SECRET, whether it has expired, and the authenticated field of its
\* payload.
Token(signedWith, expired, authenticated) ==
    [signedWith |-> signedWith, expired |-> expired,
     authenticated |-> authenticated]

Tokens ==
    { Token("JWT_SECRET", FALSE, "true"),
      Token("JWT_SECRET", FALSE, "false"),
      Token("JWT_SECRET", FALSE, "absent"),
      Token("JWT_SECRET", TRUE, "true"),
      Token("another secret", FALSE, "true") }

\* the Authorization header: the text before the token, and the token; a
\* request without the header has the scheme "absent"
NoToken == Token("nothing", FALSE, "absent")

AuthorizationHeaders ==
    { [scheme |-> "absent", token |-> NoToken],
      [scheme |-> "Bearer ", token |-> NoToken],
      [scheme |-> "Basic ", token |-> Token("JWT_SECRET", FALSE, "true")],
      [scheme |-> "bearer ", token |-> Token("JWT_SECRET", FALSE, "true")] }
    \cup { [scheme |-> "Bearer ", token |-> t] : t \in Tokens }

RequirePasswordValues == { "true", "false", "absent" }

\* jwt.verify(token, JWT_SECRET) returns the payload instead of throwing
verifies(token) ==
    token.signedWith = "JWT_SECRET" /\ ~ token.expired

\* requireAuth: TRUE when next() is called, FALSE when 401 is answered
requireAuth(authorization) ==
    LET requirePassword == REQUIRE_PASSWORD = "true"
        token == IF authorization.scheme = "Bearer "
                 THEN authorization.token ELSE NoToken
    IN  IF ~ requirePassword THEN TRUE
        ELSE IF token = NoToken THEN FALSE
        ELSE IF ~ verifies(token) THEN FALSE
        ELSE token.authenticated = "true"

\* protectedRoutes.some(route => req.path.startsWith(route))
isProtectedRoute(path) ==
    \E i \in DOMAIN protectedRoutes : startsWith(path, protectedRoutes[i])

\* The router of express() with its default settings: a route's path matches
\* without regard to case and with or without a closing "/".
MatchesRoute(path, route) ==
    LET lower == LowerCased(path)
    IN  lower = route \/ lower = route \o << "/" >>

\* a route with a parameter, '/api/timeentries/:id': one more segment
MatchesRouteWithParameter(path, route) ==
    LET lower == LowerCased(path)
        start == Len(route) + 2
    IN  /\ Len(path) >= start
        /\ startsWith(lower, route \o << "/" >>)
        /\ \A i \in start .. Len(path) - 1 : path[i] # "/"
        /\ path[start] # "/"

\* the handler that the router gives the request to, of the routes that are
\* registered after the authentication middleware
Handler(path) ==
    IF MatchesRoute(path, timeentriesRoute)
          \/ MatchesRouteWithParameter(path, timeentriesRoute)
    THEN "timeentries"
    ELSE IF MatchesRoute(path, projectsRoute)
          \/ MatchesRouteWithParameter(path, projectsRoute)
    THEN "projects"
    ELSE IF MatchesRoute(path, healthRoute) THEN "health"
    ELSE "none"

\* the public routes, registered before the authentication middleware
IsAuthRoute(path) ==
    MatchesRoute(path, loginRoute) \/ MatchesRoute(path, verifyRoute)

\* the way of a request through the middleware of the server: the status
\* answered and the handler that was reached; part_002 registers neither
\* the auth routes nor the authentication middleware
respond(path, authorization) ==
    IF serverModule = "server.ts" /\ IsAuthRoute(path)
    THEN [status |-> 200, handler |-> "auth"]
    ELSE IF serverModule = "server.ts" /\ isProtectedRoute(path)
              /\ ~ requireAuth(authorization)
    THEN [status |-> 401, handler |-> "none"]
    ELSE IF Handler(path) = "none" THEN [status |-> 404, handler |-> "none"]
    ELSE [status |-> 200, handler |-> Handler(path)]

InitAuth ==
    /\ timeEntries = << >>
    /\ VITE_DEFAULT_HOURLY_RATE = 0
    /\ VITE_DEFAULT_WORK_DAY_HOURS = 0
    /\ timeZone = 1
    /\ storeModule = "timetracking.ts"
    /\ call = NoCall
    /\ returned = NotReturned
    /\ storeProjects = << >>
    /\ isOnline = TRUE
    /\ localStorage = [timetracking_entries |-> << >>,
                       timetracking_projects |-> << >>,
                       timetracking_offline_queue |-> << >>]
    /\ sync = << >>
    /\ data = [timeEntries |-> << >>, projects |-> << >>]
    /\ serverModule \in ServerModules
    /\ uuids = 0
    /\ REQUIRE_PASSWORD \in RequirePasswordValues
    /\ requests = << >>
    /\ now = 0
    /\ queued = << >>

\* a client's request, up to the response
request(path, authorization) ==
    /\ call' = [made |-> TRUE, path |-> path, authorization |-> authorization]
    /\ returned' = respond(path, authorization)
    /\ UNCHANGED << timeEntries, timeZone, VITE_DEFAULT_HOURLY_RATE,
                    VITE_DEFAULT_WORK_DAY_HOURS, storeModule, storeProjects,
                    isOnline, localStorage, sync, data, serverModule, uuids,
                    REQUIRE_PASSWORD, requests, now, queued >>

NextAuth ==
    \E path \in RequestPaths, authorization \in AuthorizationHeaders :
        request(path, authorization)

SpecAuth == InitAuth /\ [][NextAuth]_vars

\* ------------------------------------------------- the store and its queue
\* An API call of the store is one step: the request, the backend's handling
\* of it and the response, or a failure of the network.
MaxUuids == 2

MaxQueue == 2

MaxSyncRuns == 2

MaxActions == 2

NewEntries ==
    { E(d, 800, << P("A", 800, "true") >>) : d \in { D(2024, 3, 2), D(2024, 3, 1) } }

EntryUpdates == { [totalHours |-> 400] }

\* the state once initialize has finished online against an empty data file
InitStore ==
    /\ timeEntries = << >>
    /\ VITE_DEFAULT_HOURLY_RATE = 0
    /\ VITE_DEFAULT_WORK_DAY_HOURS = 0
    /\ timeZone = 1
    /\ storeModule \in StoreModules
    /\ call = NoCall
    /\ returned = NotReturned
    /\ storeProjects = << "A" >>
    /\ isOnline = TRUE
    /\ localStorage = [timetracking_entries |-> << >>,
                       timetracking_projects |-> << "A" >>,
                       timetracking_offline_queue |-> << >>]
    /\ sync = << >>
    /\ data = [timeEntries |-> << >>, projects |-> << "A" >>]
    /\ serverModule \in ServerModules
    /\ uuids = 0
    /\ REQUIRE_PASSWORD = "false"
    /\ requests = << >>
    /\ now = 0
    /\ queued = << >>

\* localStorageHelper.setTimeEntries(entries)
setTimeEntries(storage, entries) ==
    [storage EXCEPT !.timetracking_entries = entries]

\* localStorageHelper.addToOfflineQueue(action):
\* queue.push({ ...action, timestamp: Date.now() })
addToOfflineQueue(storage, action) ==
    [storage EXCEPT !.timetracking_offline_queue =
        Append(@, Merge(action, [timestamp |-> now + 1]))]

\* localStorageHelper.clearOfflineQueue()
clearOfflineQueue(storage) ==
    [storage EXCEPT !.timetracking_offline_queue = << >>]

\* timeEntriesApi.create(entry): the response, and the data the backend holds
\* afterwards; status 0 stands for a request that failed on the network
apiCreate(entry, delivered) ==
    IF delivered THEN postTimeEntry(data, entry, uuids + 1)
    ELSE [status |-> 0, data |-> data]

\* timeEntriesApi.update(id, updates)
apiUpdate(id, updates, delivered) ==
    IF delivered THEN putTimeEntry(data, id, updates)
    ELSE [status |-> 0, data |-> data]

\* the offline branch and the catch branch of createTimeEntry
createOffline(entry) ==
    LET offlineEntry == WithId(entry, uuids + 1)
        pushed == Append(timeEntries, offlineEntry)
    IN  /\ timeEntries' = pushed
        /\ localStorage' =
               addToOfflineQueue(setTimeEntries(localStorage, pushed),
                                 [type |-> "create", data |-> entry])
        /\ uuids' = uuids + 1
        /\ data' = data
        /\ now' = now + 1
        /\ queued' = Append(queued, [offlineId |-> uuids + 1, sent |-> 0])

createTimeEntry(entry, delivered) ==
    /\ uuids < MaxUuids
    /\ Len(localStorage.timetracking_offline_queue) < MaxQueue
    /\ now < MaxActions
    /\ IF isOnline
       THEN LET result == apiCreate(entry, delivered)
            IN  IF result.status = 200
                THEN LET pushed == Append(timeEntries, result.entry)
                     IN  /\ timeEntries' = pushed
                         /\ localStorage' = setTimeEntries(localStorage, pushed)
                         /\ data' = result.data
                         /\ uuids' = uuids + 1
                         /\ isOnline' = isOnline
                         /\ UNCHANGED << now, queued >>
                ELSE /\ isOnline' = FALSE
                     /\ createOffline(entry)
       ELSE /\ isOnline' = isOnline
            /\ createOffline(entry)
    /\ UNCHANGED << REQUIRE_PASSWORD, requests >>
    /\ UNCHANGED << timeZone, VITE_DEFAULT_HOURLY_RATE,
                    VITE_DEFAULT_WORK_DAY_HOURS, storeModule, call, returned,
                    storeProjects, sync, serverModule >>

\* the offline branch and the catch branch of updateTimeEntry, for an id that
\* the store holds
updateOffline(id, updates) ==
    LET index == findIndex(timeEntries, id)
        updated == [timeEntries EXCEPT ![index] = Merge(@, updates)]
    IN  /\ timeEntries' = updated
        /\ localStorage' =
               addToOfflineQueue(setTimeEntries(localStorage, updated),
                                 [type |-> "update", id |-> id, data |-> updates])
        /\ data' = data
        /\ now' = now + 1
        /\ queued' = Append(queued, [offlineId |-> 0, sent |-> 0])

updateTimeEntry(id, updates, delivered) ==
    /\ findIndex(timeEntries, id) # 0
    /\ Len(localStorage.timetracking_offline_queue) < MaxQueue
    /\ now < MaxActions
    /\ IF isOnline
       THEN LET result == apiUpdate(id, updates, delivered)
            IN  IF result.status = 200
                THEN LET index == findIndex(timeEntries, id)
                         replaced == [timeEntries EXCEPT ![index] = result.entry]
                     IN  /\ timeEntries' = replaced
                         /\ localStorage' = setTimeEntries(localStorage, replaced)
                         /\ data' = result.data
                         /\ isOnline' = isOnline
                         /\ UNCHANGED << now, queued >>
                ELSE /\ isOnline' = FALSE
                     /\ updateOffline(id, updates)
       ELSE /\ isOnline' = isOnline
            /\ updateOffline(id, updates)
    /\ UNCHANGED << REQUIRE_PASSWORD, requests >>
    /\ UNCHANGED << timeZone, VITE_DEFAULT_HOURLY_RATE,
                    VITE_DEFAULT_WORK_DAY_HOURS, storeModule, call, returned,
                    storeProjects, sync, serverModule, uuids >>

\* timeEntriesApi.delete(id)
apiDelete(id, delivered) ==
    IF delivered THEN deleteStoredTimeEntry(data, id)
    ELSE [status |-> 0, data |-> data]

\* deleteTimeEntry of an entry that the store shows: it asks the server
\* whether online or not, filters the entry out of timeEntries.value when the
\* server has deleted it, and rethrows otherwise
deleteTimeEntry(id, delivered) ==
    LET result == apiDelete(id, delivered)
    IN  /\ findIndex(timeEntries, id) # 0
        /\ data' = result.data
        /\ timeEntries' = IF result.status = 200
                          THEN SelectSeq(timeEntries, LAMBDA entry : entry.id # id)
                          ELSE timeEntries
        /\ UNCHANGED << REQUIRE_PASSWORD, requests, now, queued >>
        /\ UNCHANGED << timeZone, VITE_DEFAULT_HOURLY_RATE,
                        VITE_DEFAULT_WORK_DAY_HOURS, storeModule, call,
                        returned, storeProjects, isOnline, localStorage, sync,
                        serverModule, uuids >>

\* window's 'offline' event: checkOnlineStatus with navigator.onLine false
offline ==
    /\ isOnline
    /\ isOnline' = FALSE
    /\ UNCHANGED << REQUIRE_PASSWORD, requests, now, queued >>
    /\ UNCHANGED << timeEntries, timeZone, VITE_DEFAULT_HOURLY_RATE,
                    VITE_DEFAULT_WORK_DAY_HOURS, storeModule, call, returned,
                    storeProjects, localStorage, sync, data, serverModule,
                    uuids >>

\* a run of syncOfflineQueue that has read the queue and sent the first
\* action; failed records the positions whose API call threw, statuses the
\* status of every call that has returned
NewRun(queue) ==
    [pc |-> "sending", queue |-> queue, index |-> 1, failed |-> {},
     statuses |-> << >>, requested |-> FALSE]

\* window's 'online' event: checkOnlineStatus with navigator.onLine true,
\* then syncOfflineQueue() up to its first await
online ==
    LET queue == localStorage.timetracking_offline_queue
    IN  /\ queue # << >> => Len(sync) < MaxSyncRuns
        /\ isOnline' = TRUE
        /\ sync' = IF queue = << >> THEN sync ELSE Append(sync, NewRun(queue))
        /\ UNCHANGED << REQUIRE_PASSWORD, requests, now, queued >>
        /\ UNCHANGED << timeEntries, timeZone, VITE_DEFAULT_HOURLY_RATE,
                        VITE_DEFAULT_WORK_DAY_HOURS, storeModule, call,
                        returned, storeProjects, localStorage, data,
                        serverModule, uuids >>

\* the API call of one queued action
apiReplay(action, delivered) ==
    IF action.type = "create" THEN apiCreate(action.data, delivered)
    ELSE apiUpdate(action.id, action.data, delivered)

\* run r of syncOfflineQueue resumes after the await of its current action:
\* the catch block only logs, the loop goes on to the next action, and after
\* the last one the queue is cleared and the two fetches are started
syncReply(r, delivered) ==
    LET run == sync[r]
        action == run.queue[run.index]
        result == apiReplay(action, delivered)
        failed == IF result.status = 200 THEN run.failed
                  ELSE run.failed \cup { run.index }
    IN  /\ run.pc = "sending"
        /\ (action.type = "create" /\ delivered) => uuids < MaxUuids
        /\ data' = result.data
        /\ uuids' = IF action.type = "create" /\ result.status = 200
                     THEN uuids + 1 ELSE uuids
        /\ queued' = [queued EXCEPT ![action.timestamp].sent = @ + 1]
        /\ now' = now
        /\ IF run.index < Len(run.queue)
           THEN /\ sync' = [sync EXCEPT ![r].index = @ + 1, ![r].failed = failed,
                                        ![r].statuses = Append(@, result.status)]
                /\ UNCHANGED << timeEntries, storeProjects, localStorage >>
           ELSE /\ sync' = [sync EXCEPT ![r].pc = "fetching",
                                        ![r].failed = failed,
                                        ![r].statuses = Append(@, result.status),
                                        ![r].requested = isOnline]
                /\ localStorage' = clearOfflineQueue(localStorage)
                /\ timeEntries' = IF isOnline THEN timeEntries
                                  ELSE localStorage.timetracking_entries
                /\ storeProjects' = IF isOnline THEN storeProjects
                                    ELSE localStorage.timetracking_projects
        /\ UNCHANGED << REQUIRE_PASSWORD, requests >>
        /\ UNCHANGED << timeZone, VITE_DEFAULT_HOURLY_RATE,
                        VITE_DEFAULT_WORK_DAY_HOURS, storeModule, call,
                        returned, isOnline, serverModule >>

RemoveAt(seq, r) ==
    [i \in 1 .. Len(seq) - 1 |-> IF i < r THEN seq[i] ELSE seq[i + 1]]

\* run r resumes after await Promise.all([fetchTimeEntries(), fetchProjects()])
\* and returns
syncFetched(r, delivered) ==
    LET run == sync[r]
    IN  /\ run.pc = "fetching"
        /\ sync' = RemoveAt(sync, r)
        /\ IF ~ run.requested
           THEN UNCHANGED << timeEntries, storeProjects, localStorage, isOnline >>
           ELSE IF delivered
           THEN /\ timeEntries' = data.timeEntries
                /\ storeProjects' = data.projects
                /\ localStorage' =
                       [localStorage EXCEPT
                           !.timetracking_entries = data.timeEntries,
                           !.timetracking_projects = data.projects]
                /\ isOnline' = isOnline
           ELSE /\ isOnline' = FALSE
                /\ timeEntries' = localStorage.timetracking_entries
                /\ storeProjects' = localStorage.timetracking_projects
                /\ localStorage' = localStorage
        /\ UNCHANGED << REQUIRE_PASSWORD, requests, now, queued >>
        /\ UNCHANGED << timeZone, VITE_DEFAULT_HOURLY_RATE,
                        VITE_DEFAULT_WORK_DAY_HOURS, storeModule, call,
                        returned, data, serverModule, uuids >>

NextStore ==
    \/ \E entry \in NewEntries, delivered \in BOOLEAN :
           createTimeEntry(entry, delivered)
    \/ \E id \in 1 .. MaxUuids, updates \in EntryUpdates, delivered \in BOOLEAN :
           updateTimeEntry(id, updates, delivered)
    \/ \E id \in 1 .. MaxUuids, delivered \in BOOLEAN : deleteTimeEntry(id, delivered)
    \/ offline
    \/ online
    \/ \E r \in DOMAIN sync, delivered \in BOOLEAN : syncReply(r, delivered)
    \/ \E r \in DOMAIN sync, delivered \in BOOLEAN : syncFetched(r, delivered)

SpecStore == InitStore /\ [][NextStore]_vars

\* ------------------------------------------------- the file storage
\* A request to FileStorage runs in three parts: up to await readData(), from
\* the data it read up to await writeData(data), and from there to its
\* return.  Requests of other clients run in between.
MaxRequests == 3

StorageBodies == { E(D(2024, 3, 1), 800, << P("A", 800, "absent") >>) }

StorageUpdates == { [totalHours |-> 400] }

\* createTimeEntry between its two awaits: the data it is about to write
storageCreate(d, entry, id) ==
    LET pushed == Append(d.timeEntries, WithId(entry, id))
    IN  [d EXCEPT !.timeEntries = pushed,
                  !.metadata.totalEntries = Len(pushed)]

\* updateTimeEntry between its two awaits, for an id that the data holds
storageUpdate(d, id, updates) ==
    [d EXCEPT !.timeEntries[findIndex(d.timeEntries, id)] = Merge(@, updates)]

\* deleteTimeEntry between its two awaits, for an id that the data holds
storageDelete(d, id) ==
    LET spliced == deleteStoredTimeEntry(d, id).data.timeEntries
    IN  [d EXCEPT !.timeEntries = spliced,
                  !.metadata.totalEntries = Len(spliced)]

\* the data file as FileStorage.initialize writes it
InitStorage ==
    /\ timeEntries = << >>
    /\ VITE_DEFAULT_HOURLY_RATE = 0
    /\ VITE_DEFAULT_WORK_DAY_HOURS = 0
    /\ timeZone = 1
    /\ storeModule = "timetracking.ts"
    /\ call = NoCall
    /\ returned = NotReturned
    /\ storeProjects = << >>
    /\ isOnline = TRUE
    /\ localStorage = [timetracking_entries |-> << >>,
                       timetracking_projects |-> << >>,
                       timetracking_offline_queue |-> << >>]
    /\ sync = << >>
    /\ data = [metadata |-> [totalEntries |-> 0], timeEntries |-> << >>,
               projects |-> << >>]
    /\ serverModule = "server.ts"
    /\ uuids = 0
    /\ REQUIRE_PASSWORD = "false"
    /\ requests = << >>
    /\ now = 0
    /\ queued = << >>

\* a request reaches its route handler, which calls the storage: the method
\* runs up to await this.readData()
arrive(kind, id, body) ==
    /\ Len(requests) < MaxRequests
    /\ requests' = Append(requests,
           [kind |-> kind, id |-> id, body |-> body, pc |-> "reading",
            read |-> data, status |-> 0])
    /\ UNCHANGED << timeEntries, timeZone, VITE_DEFAULT_HOURLY_RATE,
                    VITE_DEFAULT_WORK_DAY_HOURS, storeModule, call, returned,
                    storeProjects, isOnline, localStorage, sync, data,
                    serverModule, uuids, REQUIRE_PASSWORD, now, queued >>

\* fs.readJson of request r returns.  While another request's fs.writeJson is
\* under way the file may be read half-written: parsing throws and the
\* handler answers 500.  Otherwise the method changes the data it read and
\* runs up to await this.writeData(data), or returns at once when the data
\* does not hold the id.
afterReadData(r, torn) ==
    LET req == requests[r]
        found == findIndex(data.timeEntries, req.id) # 0
    IN  /\ req.pc = "reading"
        /\ torn => \E o \in DOMAIN requests : requests[o].pc = "writing"
        /\ requests' =
               [requests EXCEPT ![r] =
                   IF torn THEN [@ EXCEPT !.pc = "done", !.status = 500]
                   ELSE IF req.kind = "create"
                   THEN [@ EXCEPT !.pc = "writing", !.id = uuids + 1,
                            !.read = storageCreate(data, req.body, uuids + 1)]
                   ELSE IF ~ found
                   THEN [@ EXCEPT !.pc = "done", !.status = 404]
                   ELSE IF req.kind = "update"
                   THEN [@ EXCEPT !.pc = "writing",
                            !.read = storageUpdate(data, req.id, req.body)]
                   ELSE [@ EXCEPT !.pc = "writing",
                            !.read = storageDelete(data, req.id)]]
        /\ uuids' = IF req.kind = "create" /\ ~ torn THEN uuids + 1 ELSE uuids
        /\ UNCHANGED << timeEntries, timeZone, VITE_DEFAULT_HOURLY_RATE,
                        VITE_DEFAULT_WORK_DAY_HOURS, storeModule, call,
                        returned, storeProjects, isOnline, localStorage, sync,
                        data, serverModule, REQUIRE_PASSWORD, now, queued >>

\* fs.writeJson of request r returns: the file holds the data of the request,
\* and the handler answers
afterWriteData(r) ==
    /\ requests[r].pc = "writing"
    /\ data' = requests[r].read
    /\ requests' = [requests EXCEPT ![r].pc = "done", ![r].status = 200]
    /\ UNCHANGED << timeEntries, timeZone, VITE_DEFAULT_HOURLY_RATE,
                    VITE_DEFAULT_WORK_DAY_HOURS, storeModule, call, returned,
                    storeProjects, isOnline, localStorage, sync, serverModule,
                    uuids, REQUIRE_PASSWORD, now, queued >>

NextStorage ==
    \/ \E body \in StorageBodies : arrive("create", 0, body)
    \/ \E id \in 1 .. MaxRequests, body \in StorageUpdates : arrive("update", id, body)
    \/ \E id \in 1 .. MaxRequests : arrive("delete", id, << >>)
    \/ \E r \in DOMAIN requests, torn \in BOOLEAN : afterReadData(r, torn)
    \/ \E r \in DOMAIN requests : afterWriteData(r)

SpecStorage == InitStorage /\ [][NextStorage]_vars

\* =================================================================== claims
IsReport == returned.status = "report"

\* the entries the last call selected
Selected == yearEntries(call.year)

\* the entries whose date is written with the year of the last call
DatedInYear == SelectSeq(timeEntries, LAMBDA entry : entry.date.y = call.year)

\* positions <<i, j>> of the allocations of a list of entries
Allocations(entries) ==
    UNION { { << i, j >> : j \in 1 .. Len(entries[i].projects) } :
            i \in 1 .. Len(entries) }

AllocationAt(entries, x) == entries[x[1]].projects[x[2]]

RECURSIVE SumAllocated(_, _)
SumAllocated(entries, S) ==
    IF S = {} THEN 0
    ELSE LET x == CHOOSE x \in S : TRUE
         IN  AllocationAt(entries, x).hoursAllocated + SumAllocated(entries, S \ {x})

RECURSIVE SumOverIndices(_, _)
SumOverIndices(f, S) ==
    IF S = {} THEN 0
    ELSE LET i == CHOOSE i \in S : TRUE
         IN  f[i] + SumOverIndices(f, S \ {i})

\* C1: calculateYearlyStatistics(year) returns null when no entry of the store
\* is dated in the requested year, and returns a report whenever at least one
\* entry is dated in that year.
C1_NullExactlyWhenNoEntryOfYear ==
    call.made =>
        /\ DatedInYear = << >> => returned.status = "null"
        /\ DatedInYear # << >> => returned.status = "report"

\* C2: in every report monthlyBreakdown has exactly 12 elements, in the
\* calendar order Jan .. Dec, whatever the dates of the selected entries.
C2_TwelveMonthsInOrder ==
    IsReport =>
        /\ Len(returned.stats.monthlyBreakdown) = 12
        /\ \A i \in 1 .. 12 : returned.stats.monthlyBreakdown[i].month = monthNames[i]

\* day numbers of the distinct dates of a list of entries
DistinctDays(entries) ==
    { DaysFromCivil(entries[i].date) : i \in 1 .. Len(entries) }

\* length of the longest run of consecutive day numbers in a set of days
LongestRun(days) ==
    IF days = {} THEN 0
    ELSE CHOOSE k \in 1 .. Cardinality(days) :
            /\ \E d \in days : \A i \in 0 .. k - 1 : d + i \in days
            /\ \A n \in k + 1 .. Cardinality(days) :
                   ~ \E d \in days : \A i \in 0 .. n - 1 : d + i \in days

\* C3: longestStreak is the length of the longest run of consecutive calendar
\* days that each hold at least one selected entry; several entries on one
\* date count as one day and do not break the run.
C3_StreakOverDistinctDates ==
    IsReport => returned.stats.longestStreak = LongestRun(DistinctDays(Selected))

\* C4: an allocation with billable false adds its hours to the project's
\* totalHours and nonBillableHours and to the yearly nonBillableHours, and
\* nothing to billableHours, revenue or totalRevenue; an allocation without a
\* billable flag counts as billable.
C4_NonBillableExcluded ==
    IsReport =>
        LET stats == returned.stats
            rate == stats.averageHourlyRate
            all == Allocations(Selected)
            nonBillable ==
                { x \in all : AllocationAt(Selected, x).billable = "false" }
            billable == all \ nonBillable
            named(n) == { x \in all : AllocationAt(Selected, x).name = n }
        IN  /\ stats.nonBillableHours = SumAllocated(Selected, nonBillable)
            /\ stats.billableHours = SumAllocated(Selected, billable)
            /\ stats.totalRevenue =
                   RoundDiv(SumAllocated(Selected, billable) * rate, 100)
            /\ { stats.topProjects[k].name : k \in DOMAIN stats.topProjects }
                   = { AllocationAt(Selected, x).name : x \in all }
            /\ \A k \in DOMAIN stats.topProjects :
                   LET p == stats.topProjects[k]
                   IN  /\ p.totalHours = SumAllocated(Selected, named(p.name))
                       /\ p.nonBillableHours =
                              SumAllocated(Selected, named(p.name) \cap nonBillable)
                       /\ p.billableHours =
                              SumAllocated(Selected, named(p.name) \cap billable)
                       /\ p.revenue =
                              SumAllocated(Selected, named(p.name) \cap billable) * rate

\* a report over allocations flagged false, flagged true and not flagged,
\* with a project that has both billable and non-billable hours
C4_Witness ==
    /\ IsReport
    /\ \E x \in Allocations(Selected) : AllocationAt(Selected, x).billable = "false"
    /\ \E x \in Allocations(Selected) : AllocationAt(Selected, x).billable = "absent"
    /\ \E k \in DOMAIN returned.stats.topProjects :
           /\ returned.stats.topProjects[k].nonBillableHours > 0
           /\ returned.stats.topProjects[k].billableHours > 0

\* C5: topProjects is ordered by revenue descending, projects of equal
\* revenue by totalHours descending.
C5_TopProjectsOrdered ==
    IsReport =>
        LET top == returned.stats.topProjects
        IN  \A i \in 1 .. Len(top) - 1 :
                \/ top[i].revenue > top[i + 1].revenue
                \/ /\ top[i].revenue = top[i + 1].revenue
                   /\ top[i].totalHours >= top[i + 1].totalHours

\* a report of three projects in which two projects of equal revenue were
\* first met in the order opposite to their totalHours
C5_Witness ==
    /\ IsReport
    /\ Len(returned.stats.topProjects) = 3
    /\ \E i \in 1 .. 2 :
           LET p == returned.stats.topProjects[i]
               q == returned.stats.topProjects[i + 1]
               met == Accumulate(Selected, returned.stats.averageHourlyRate).projectStats
           IN  /\ p.revenue = q.revenue
               /\ p.totalHours > q.totalHours
               /\ IndexOfName(met, q.name) < IndexOfName(met, p.name)

\* C6: totalOvertimeHours is the sum over the selected entries of
\* max(0, totalHours - workDayHours), overtimeDays is the number of entries
\* for which that value is positive, and overtimePercentage is
\* totalOvertimeHours / yearly totalHours x 100 (as returned, at 2 decimals).
C6_Overtime ==
    IsReport =>
        LET stats == returned.stats
            over == [i \in 1 .. Len(Selected) |->
                        Max2(0, Selected[i].totalHours - defaultWorkDayHours)]
            hours == [i \in 1 .. Len(Selected) |-> Selected[i].totalHours]
            yearTotal == SumOverIndices(hours, DOMAIN hours)
            overTotal == SumOverIndices(over, DOMAIN over)
        IN  /\ stats.totalOvertimeHours = overTotal
            /\ stats.overtimeDays = Cardinality({ i \in DOMAIN over : over[i] > 0 })
            /\ yearTotal > 0 =>
                   stats.overtimePercentage = RoundDiv(overTotal * 10000, yearTotal)

\* workDayHours 7.5 and one entry of 10 hours: 2.5 hours, 1 day and 25 percent
C6_Witness ==
    /\ IsReport
    /\ defaultWorkDayHours = 750
    /\ Len(Selected) = 1
    /\ Selected[1].totalHours = 1000
    /\ returned.stats.totalOvertimeHours = 250
    /\ returned.stats.overtimeDays = 1
    /\ returned.stats.overtimePercentage = 2500

C8_SingleEntrySingleProject ==
    ( /\ call.made
      /\ Len(DatedInYear) = 1
      /\ DatedInYear[1].totalHours > 0
      /\ Len(DatedInYear[1].projects) = 1
      /\ DatedInYear[1].projects[1].hoursAllocated = DatedInYear[1].totalHours
      /\ DatedInYear[1].projects[1].billable # "false" )
    =>
        LET h == DatedInYear[1].totalHours
            rate == DEFAULT_HOURLY_RATE(call.hourlyRate)
        IN  /\ IsReport
            /\ returned.stats.totalHours = h
            /\ returned.stats.billableHours = h
            /\ returned.stats.totalRevenue * 100 = h * rate
            /\ returned.stats.workingDays = 1
            /\ returned.stats.longestStreak = 1
            /\ Len(returned.stats.topProjects) = 1
            /\ returned.stats.topProjects[1].name = DatedInYear[1].projects[1].name
            /\ returned.stats.topProjects[1].totalHours = h
            /\ returned.stats.topProjects[1].revenue = h * rate
            /\ returned.stats.topProjects[1].percentage.num
                   = 100 * returned.stats.topProjects[1].percentage.den

\* C9: the entries aggregated for a year are exactly those whose date is
\* written with that year (its calendar year in UTC), whatever the local
\* time zone of the machine.
C9_SelectionByUTCYear ==
    call.made => Selected = DatedInYear

\* C10: workingDays is the number of distinct dates among the selected
\* entries, and averageDailyHours is the yearly totalHours divided by that
\* number (as returned, at 2 decimals).
C10_WorkingDaysDistinctDates ==
    IsReport =>
        LET days == Cardinality(DistinctDays(Selected))
        IN  /\ returned.stats.workingDays = days
            /\ returned.stats.averageDailyHours
                   = RoundDiv(returned.stats.totalHours, days)

\* C11: once the call is past the null return, the yearly total hours, the
\* divisor of every project's percentage and of the billable-ratio
\* milestones, is greater than 0, so every percentage is a finite number.
C11_DivisorPositive ==
    IsReport =>
        /\ returned.stats.totalHours > 0
        /\ \A k \in DOMAIN returned.stats.topProjects :
               returned.stats.topProjects[k].percentage.den > 0

\* C12: a selected entry without totalHours counts as 0 hours in the yearly
\* total, the overtime and the monthly totals; the call returns a report
\* whose totals are numbers, with the other entries' hours unchanged.
C12_MissingTotalHoursIsZero ==
    ( call.made /\ \E i \in DOMAIN Selected : Selected[i].totalHours = NaN )
    =>
        LET hours == [i \in DOMAIN Selected |-> OrZero(Selected[i].totalHours)]
            over == [i \in DOMAIN Selected |-> Max2(0, hours[i] - defaultWorkDayHours)]
            monthly == [i \in DOMAIN returned.stats.monthlyBreakdown |->
                           returned.stats.monthlyBreakdown[i].totalHours]
        IN  /\ IsReport
            /\ returned.stats.totalHours = SumOverIndices(hours, DOMAIN hours)
            /\ returned.stats.totalOvertimeHours = SumOverIndices(over, DOMAIN over)
            /\ \A i \in DOMAIN monthly : monthly[i] # NaN
            /\ SumOverIndices(monthly, DOMAIN monthly)
                   = SumOverIndices(hours, DOMAIN hours)

\* C13: every hour, revenue and percentage value of the report has at most
\* 2 decimal places, each topProjects element's percentage included: a
\* percentage num / den is a whole number of hundredths of a percent.
C13_RoundedToTwoDecimals ==
    IsReport =>
        \A k \in DOMAIN returned.stats.topProjects :
            LET percentage == returned.stats.topProjects[k].percentage
            IN  /\ percentage.den > 0
                /\ (percentage.num * 100) % percentage.den = 0

\* C14: for every year with at least one selected entry the call completes
\* and returns a report: no milestone predicate reads an aggregate that is
\* declared after it.
C14_NonEmptyYearReturnsReport ==
    ( call.made /\ Selected # << >> ) => IsReport

\* C15: the milestones list of a report holds no label twice, and its labels
\* are in the order in which the code lists the predicates.
C15_MilestonesDistinctInOrder ==
    IsReport =>
        LET milestones == returned.stats.milestones
            position(label) ==
                CHOOSE n \in DOMAIN milestoneLabels : milestoneLabels[n] = label
        IN  /\ \A i \in DOMAIN milestones :
                   \E n \in DOMAIN milestoneLabels : milestoneLabels[n] = milestones[i]
            /\ \A i, j \in DOMAIN milestones :
                   i < j => position(milestones[i]) < position(milestones[j])

\* a report with all six milestones
C15_Witness ==
    /\ IsReport
    /\ Len(returned.stats.milestones) = 6

\* C16: busiestMonth is a month of maximal totalHours and leastBusyMonth a
\* month of minimal totalHours among the 12 month buckets of the year that
\* have totalHours > 0, and the percentage of each is its hours divided by
\* the yearly total, times 100.
C16_BusiestAndLeastBusyMonth ==
    IsReport =>
        LET stats == returned.stats
            months == stats.monthlyBreakdown
            withHours == { i \in 1 .. 12 : months[i].totalHours > 0 }
            isBucket(summary, i) ==
                /\ months[i].month = summary.month
                /\ months[i].totalHours = summary.hours
            percentageOf(summary) ==
                RoundDiv(summary.hours * 10000, stats.totalHours)
        IN  withHours # {} =>
                /\ \E i \in withHours :
                       /\ isBucket(stats.busiestMonth, i)
                       /\ \A j \in withHours :
                              months[j].totalHours <= months[i].totalHours
                /\ \E i \in withHours :
                       /\ isBucket(stats.leastBusyMonth, i)
                       /\ \A j \in withHours :
                              months[j].totalHours >= months[i].totalHours
                /\ stats.busiestMonth.percentage = percentageOf(stats.busiestMonth)
                /\ stats.leastBusyMonth.percentage = percentageOf(stats.leastBusyMonth)

\* C17: for every month m and project name n, monthlyBreakdown[m].projectHours[n]
\* is the sum of hoursAllocated over the allocations named n in the year's
\* entries dated in month m, and a project without an allocation in the month
\* has no key in that month's map.
C17_MonthlyProjectHours ==
    IsReport =>
        \A m \in 1 .. 12 :
            LET projectHours == returned.stats.monthlyBreakdown[m].projectHours
                inMonth == { x \in Allocations(Selected) : Selected[x[1]].date.m = m }
                named(n) == { x \in inMonth : AllocationAt(Selected, x).name = n }
            IN  /\ DOMAIN projectHours
                       = { AllocationAt(Selected, x).name : x \in inMonth }
                /\ \A n \in DOMAIN projectHours :
                       projectHours[n] = SumAllocated(Selected, named(n))

\* C19: after any sequence of accepted POST and PUT requests every stored
\* entry has the sum of its projects' hoursAllocated at most its totalHours
\* (a missing totalHours counting as 0).
C19_StoredAllocationsWithinTotal ==
    \A i \in DOMAIN data.timeEntries :
        LET entry == data.timeEntries[i]
        IN  sumProjectHours(entry.projects) <= OrZero(entry.totalHours)

\* C18: a call of calculateYearlyStatistics leaves the store's timeEntries
\* (order and fields), the projects list, the offline queue and the
\* localStorage cache as they were.
C18_NoSideEffects ==
    [][ call' # call =>
            /\ timeEntries' = timeEntries
            /\ storeProjects' = storeProjects
            /\ localStorage' = localStorage ]_vars

\* a report was computed over a store whose entries are not in date order
C18_Witness ==
    /\ IsReport
    /\ Len(timeEntries) >= 2
    /\ timeEntries # SortEntries(<< >>, timeEntries)
    /\ localStorage.timetracking_entries = timeEntries

\* C20: an action whose API call failed during a run of syncOfflineQueue is
\* still in the offline queue when the run has gone through the queue; only
\* the actions that were synced are removed.
C20_FailedActionsKept ==
    \A r \in DOMAIN sync :
        sync[r].pc = "fetching" =>
            \A i \in sync[r].failed :
                \E k \in DOMAIN localStorage.timetracking_offline_queue :
                    localStorage.timetracking_offline_queue[k] = sync[r].queue[i]

\* ---------------------------------------------------------------- C21
\* the request carries a Bearer token that verifies and has
\* authenticated = true
CarriesValidToken(authorization) ==
    /\ authorization.scheme = "Bearer "
    /\ authorization.token.signedWith = "JWT_SECRET"
    /\ ~ authorization.token.expired
    /\ authorization.token.authenticated = "true"

DataHandlers == { "timeentries", "projects", "health" }

\* C21: with REQUIRE_PASSWORD 'true', a request reaches the handler of a
\* time-entry, project or health route only if it carries a Bearer token that
\* verifies and has authenticated = true, and every other request to a path
\* under the three protected prefixes is answered 401; with another value of
\* REQUIRE_PASSWORD no request is answered 401.
C21_ProtectedRoutesRequireToken ==
    call.made =>
        /\ ( REQUIRE_PASSWORD = "true" /\ returned.handler \in DataHandlers )
               => CarriesValidToken(call.authorization)
        /\ ( REQUIRE_PASSWORD = "true" /\ isProtectedRoute(call.path)
               /\ ~ CarriesValidToken(call.authorization) )
               => returned.status = 401
        /\ REQUIRE_PASSWORD # "true" => returned.status # 401

\* ---------------------------------------------------------------- C22
\* C22: in every report totalRevenue, a number of whole currency units, equals
\* the sum of the revenue of the elements of topProjects, which is in
\* hundredths.
C22_TotalRevenueIsSumOfProjects ==
    IsReport =>
        LET top == returned.stats.topProjects
        IN  returned.stats.totalRevenue * 100 =
                SumOverIndices([i \in DOMAIN top |-> top[i].revenue], DOMAIN top)

C25_CacheEqualsMemory ==
    [][ ( \/ \E entry \in NewEntries, delivered \in BOOLEAN :
                createTimeEntry(entry, delivered)
          \/ \E id \in 1 .. MaxUuids, updates \in EntryUpdates,
                delivered \in BOOLEAN : updateTimeEntry(id, updates, delivered)
          \/ \E id \in 1 .. MaxUuids, delivered \in BOOLEAN :
                deleteTimeEntry(id, delivered) )
        => localStorage'.timetracking_entries = timeEntries' ]_vars

\* ---------------------------------------------------------------- C26
\* the action with timestamp t is in the offline queue
InQueue(t) ==
    \E k \in DOMAIN localStorage.timetracking_offline_queue :
        localStorage.timetracking_offline_queue[k].timestamp = t

\* a run that is still sending holds the action at a position it has not
\* passed
Pending(t) ==
    \E r \in DOMAIN sync :
        /\ sync[r].pc = "sending"
        /\ \E k \in sync[r].index .. Len(sync[r].queue) :
               sync[r].queue[k].timestamp = t

\* C26: no action leaves the offline queue unsent: every action that was ever
\* queued, the ones queued while a run is between its read and its clearing
\* of the queue included, is in the queue, has been sent by a run, or is
\* about to be sent by a run that read it.
C26_ActionsQueuedDuringSyncKept ==
    \A t \in DOMAIN queued : InQueue(t) \/ queued[t].sent >= 1 \/ Pending(t)

\* ---------------------------------------------------------------- C27
\* C27: no queued action is sent to the server more than once, however many
\* runs of syncOfflineQueue are in progress.
C27_ActionsSentAtMostOnce ==
    \A t \in DOMAIN queued : queued[t].sent <= 1

\* ---------------------------------------------------------------- C29
\* every call of the run reached the server
NoNetworkFailure(run) ==
    \A k \in DOMAIN run.statuses : run.statuses[k] # 0

\* C29: when a run has sent its last action and every call reached the
\* server, then for a queued create followed by a queued update of the entry
\* that the create stands for, the server holds an entry of the created date
\* with the updated hours.
C29_OfflineUpdateReachesCreatedEntry ==
    [][ \A r \in DOMAIN sync :
          ( /\ sync[r].pc = "sending"
            /\ r \in DOMAIN sync'
            /\ sync'[r].pc = "fetching"
            /\ NoNetworkFailure(sync'[r]) )
          => \A i, j \in DOMAIN sync[r].queue :
                 LET create == sync[r].queue[i]
                     update == sync[r].queue[j]
                 IN  ( /\ i < j
                       /\ create.type = "create"
                       /\ update.type = "update"
                       /\ update.id = queued[create.timestamp].offlineId )
                     => \E k \in DOMAIN data'.timeEntries :
                            /\ data'.timeEntries[k].date = create.data.date
                            /\ data'.timeEntries[k].totalHours
                                   = update.data.totalHours ]_vars

\* ---------------------------------------------------------------- C28
\* a delete request for the entry has been received
DeleteRequested(id) ==
    \E d \in DOMAIN requests : requests[d].kind = "delete" /\ requests[d].id = id

\* C28: every entry whose create request has been answered 200, and for which
\* no delete request was made, is in the data file, and metadata.totalEntries
\* is the number of stored time entries.
C28_CreatedEntriesStored ==
    /\ \A r \in DOMAIN requests :
           ( /\ requests[r].kind = "create"
             /\ requests[r].pc = "done"
             /\ requests[r].status = 200
             /\ ~ DeleteRequested(requests[r].id) )
           => findIndex(data.timeEntries, requests[r].id) # 0
    /\ data.metadata.totalEntries = Len(data.timeEntries)

====
